---- MODULE Spec2Model ----
(***************************************************************************)
(* The face search programs of the repository, one of them per behaviour   *)
(* (app says which): the in-memory engine of app/main_simple.py, with its  *)
(* class FaceDatabase (record list, embedding list, id counter), the       *)
(* Milvus-backed servers app/main.py and halo-face-search/app/main.py, and *)
(* the class FaceSearchService of app/services.py.  Handlers run on one    *)
(* event loop, so a handler is atomic between two of its await points;     *)
(* every handler that awaits is split there.                               *)
(*                                                                         *)
(* A vector is [len, c]: a vector of len components whose first two are    *)
(* c[1], c[2] and whose other components are 0.  A stored embedding is the *)
(* direction of a unit vector, written with coprime integers, so cosine    *)
(* similarities are compared exactly and scores are computed in units of   *)
(* 1e-4 (the code rounds them to four decimals).                           *)
(***************************************************************************)
EXTENDS Integers, Sequences, FiniteSets, TLC

VARIABLES face_db, started, pc, local, tmp_files, response, app, milvus, service,
          loading

vars == <<face_db, started, pc, local, tmp_files, response, app, milvus, service,
          loading>>

----------------------------------------------------------------------------
(* Bounds of the model *)

MaxFaces == 2
MaxFiles == 1
MaxLeaked == 1
MaxScenario == 3
MaxSampled == 6
MaxListed == 103

MaxIngestFiles == 2

MaxIngested == 2

(* Program constants *)

D == 512
MAX_TOP_K == 20
MAX_SYNTHETIC == 100
SAMPLE_SIZE == 5

Tasks == {"t1", "t2"}

None == "None"

----------------------------------------------------------------------------
(* Small helpers *)

Min(a, b) == IF a <= b THEN a ELSE b

Max(a, b) == IF a >= b THEN a ELSE b

Abs(x) == IF x < 0 THEN -x ELSE x

Sgn(x) == IF x < 0 THEN -1 ELSE IF x > 0 THEN 1 ELSE 0

RECURSIVE Gcd(_, _)
Gcd(a, b) == IF b = 0 THEN a ELSE Gcd(b, a % b)

(* Newton's iteration from a guess x that is not below the root *)
RECURSIVE IsqrtFrom(_, _)
IsqrtFrom(n, x) ==
    LET y == (x + n \div x) \div 2
    IN  IF y >= x THEN x ELSE IsqrtFrom(n, y)

(* floor of the square root of n, for 0 <= n <= 400000000 *)
Isqrt(n) == IF n = 0 THEN 0 ELSE IsqrtFrom(n, 20000)

Reverse(s) == [i \in 1..Len(s) |-> s[Len(s) + 1 - i]]

(* a faulty s[:k] that keeps one element too many *)
SliceTo_one_more(s, k) ==
    IF k >= 0 THEN SubSeq(s, 1, Min(k + 1, Len(s)))
    ELSE SubSeq(s, 1, Max(0, Len(s) + k))

(* s[:k] of Python *)
SliceTo(s, k) ==
    IF k >= 0 THEN SubSeq(s, 1, Min(k, Len(s)))
    ELSE SubSeq(s, 1, Max(0, Len(s) + k))

(* the orders of n indices, for every size the store can have *)
AllPerms ==
    [n \in 0..Max(MaxFaces + 1, MaxScenario) |->
        {p \in [1..n -> 1..n] : \A i, j \in 1..n : i # j => p[i] # p[j]}]

Perms(n) == AllPerms[n]

----------------------------------------------------------------------------
(* Vectors and cosine similarity *)

(* nan marks the vector whose components are all NaN *)
Vec(len, x, y) == [len |-> len, c |-> <<x, y>>, nan |-> FALSE]

NaNVec(len) == [len |-> len, c |-> <<0, 0>>, nan |-> TRUE]

Dot(a, b) == a.c[1] * b.c[1] + a.c[2] * b.c[2]

NormSq(a) == Dot(a, a)

(* embedding / np.linalg.norm(embedding): the unit vector, kept as its     *)
(* direction in lowest terms; dividing the zero vector by its norm 0 gives *)
(* NaN in every component (numpy warns, it does not raise)                 *)
Normalize(raw) ==
    LET g == Gcd(Abs(raw.c[1]), Abs(raw.c[2]))
    IN  IF g = 0 THEN NaNVec(raw.len)
        ELSE Vec(raw.len, raw.c[1] \div g, raw.c[2] \div g)

(* sklearn's cosine_similarity normalizes both arguments and replaces a    *)
(* zero norm by 1, so a zero vector has similarity 0 with everything.      *)
(* CosNum(q, v) / CosDen(v) orders like the similarity of q and v for a    *)
(* fixed q: sign(dot) * dot^2 / |v|^2.                                     *)
CosNum(q, v) == Sgn(Dot(q, v)) * Dot(q, v) * Dot(q, v)

CosDen(v) == IF NormSq(v) = 0 THEN 1 ELSE NormSq(v)

(* a faulty comparison that takes the inner product for the similarity *)
SimLess_dot(q, a, b) == Dot(q, a) < Dot(q, b)

(* similarity(q, a) < similarity(q, b), exactly *)
SimLess(q, a, b) == CosNum(q, a) * CosDen(b) < CosNum(q, b) * CosDen(a)

(* round(similarity, 4) in units of 1e-4: t is floor(20000 * |similarity|), *)
(* and (t + 1) \div 2 rounds it to the nearest unit.  The quotient          *)
(* 400000000 * d * d \div den is computed in two steps of 20000 to stay     *)
(* within 32 bits.                                                         *)
Score(q, v) ==
    LET d == Dot(q, v)
        den == CosDen(q) * CosDen(v)
        x == 20000 * d * d
        t == Isqrt(20000 * (x \div den) + (20000 * (x % den)) \div den)
    IN  Sgn(d) * ((t + 1) \div 2)

----------------------------------------------------------------------------
(* class FaceDatabase *)

FaceDatabase == [faces |-> <<>>, embeddings |-> <<>>, next_id |-> 1]

(* a faulty add_face that stops after appending the record *)
FaceDatabase_add_face_partial(db, embedding, face_id, person_name, image_path) ==
    LET record == [id |-> db.next_id,
                   face_id |-> face_id,
                   person_name |-> person_name,
                   image_path |-> image_path]
    IN  [db |-> [faces |-> Append(db.faces, record),
                 embeddings |-> db.embeddings,
                 next_id |-> db.next_id + 1],
         record |-> record]

(* a faulty add_face that writes into the last slot of a non-empty store   *)
(* instead of appending                                                    *)
FaceDatabase_add_face_overwrite(db, embedding, face_id, person_name, image_path) ==
    LET record == [id |-> db.next_id,
                   face_id |-> face_id,
                   person_name |-> person_name,
                   image_path |-> image_path]
        n == Len(db.faces)
    IN  [db |-> [faces |-> IF n = 0 THEN <<record>>
                           ELSE [db.faces EXCEPT ![n] = record],
                 embeddings |-> IF n = 0 THEN <<embedding>>
                                ELSE [db.embeddings EXCEPT ![n] = embedding],
                 next_id |-> db.next_id + 1],
         record |-> record]

(* FaceDatabase.add_face: the new state of the database and the record     *)
(* returned.  created_at (the wall clock) is left out of the record.       *)
FaceDatabase_add_face(db, embedding, face_id, person_name, image_path) ==
    LET record == [id |-> db.next_id,
                   face_id |-> face_id,
                   person_name |-> person_name,
                   image_path |-> image_path]
    IN  [db |-> [faces |-> Append(db.faces, record),
                 embeddings |-> Append(db.embeddings, embedding),
                 next_id |-> db.next_id + 1],
         record |-> record]

(* np.array(self.embeddings) and cosine_similarity raise ValueError when   *)
(* the rows and the query do not all have one length, or when a value is   *)
(* NaN                                                                     *)
SimilarityRaises(db, query_embedding) ==
    \/ query_embedding.nan
    \/ \E i \in 1..Len(db.embeddings) :
          \/ db.embeddings[i].nan
          \/ db.embeddings[i].len # query_embedding.len

(* a faulty argsort that sorts in descending order *)
Argsort_descending(db, query_embedding) ==
    {p \in Perms(Len(db.embeddings)) :
        \A i, j \in 1..Len(db.embeddings) :
            i < j => ~SimLess(query_embedding, db.embeddings[p[i]], db.embeddings[p[j]])}

(* np.argsort(similarities): the index orders, 1-based, that put the       *)
(* similarities in ascending order.  The default sort kind is not stable,  *)
(* so equal similarities may come out in any order.                        *)
Argsort(db, query_embedding) ==
    {p \in Perms(Len(db.embeddings)) :
        \A i, j \in 1..Len(db.embeddings) :
            i < j => ~SimLess(query_embedding, db.embeddings[p[j]], db.embeddings[p[i]])}

(* a faulty selection that forgets to reverse the ascending order *)
top_indices_ascending(order, top_k) == SliceTo(order, top_k)

(* np.argsort(similarities)[::-1][:top_k] for the argsort outcome order *)
top_indices(order, top_k) == SliceTo(Reverse(order), top_k)

(* one entry of the result list; the percentage, rounded to two decimals,  *)
(* is written in units of 0.01 and so is the same number as the score      *)
SearchResult(db, query_embedding, idx, i) ==
    LET similarity_score == Score(query_embedding, db.embeddings[idx])
    IN  [rank |-> i,
         face_id |-> db.faces[idx].face_id,
         person_name |-> db.faces[idx].person_name,
         image_path |-> db.faces[idx].image_path,
         similarity_score |-> similarity_score,
         similarity_percentage |-> similarity_score]

(* a faulty search_similar without the early return for an empty store:    *)
(* cosine_similarity raises on the empty matrix                            *)
search_similar_no_empty_check(db, query_embedding, top_k, order) ==
    IF Len(db.embeddings) = 0 \/ SimilarityRaises(db, query_embedding)
    THEN [ok |-> FALSE, error |-> "ValueError"]
    ELSE LET top == top_indices(order, top_k)
         IN  [ok |-> TRUE,
              results |-> [i \in 1..Len(top) |->
                              SearchResult(db, query_embedding, top[i], i)]]

(* FaceDatabase.search_similar, for the argsort outcome order *)
search_similar(db, query_embedding, top_k, order) ==
    IF Len(db.embeddings) = 0 THEN [ok |-> TRUE, results |-> <<>>]
    ELSE IF SimilarityRaises(db, query_embedding)
    THEN [ok |-> FALSE, error |-> "ValueError"]
    ELSE LET top == top_indices(order, top_k)
         IN  [ok |-> TRUE,
              results |-> [i \in 1..Len(top) |->
                              SearchResult(db, query_embedding, top[i], i)]]

(* the argsort outcomes a call of search_similar can see; one dummy order  *)
(* where argsort is not reached                                            *)
SearchOrders(db, query_embedding) ==
    IF Len(db.embeddings) = 0 \/ SimilarityRaises(db, query_embedding)
    THEN {<<>>}
    ELSE Argsort(db, query_embedding)

FaceDatabase_get_stats(db) ==
    [total_faces |-> Len(db.faces),
     embedding_dimension |-> IF Len(db.embeddings) > 0 THEN D ELSE 0]

----------------------------------------------------------------------------
(* Inputs: images, uploads, requests *)

(* DeepFace.represent(img_path, model_name="ArcFace", ...)[0]["embedding"] *)
(* for the images of the model; an unreadable image makes it raise         *)
DeepFace_represent(img) ==
    CASE img = "a.jpg" -> [ok |-> TRUE, embedding |-> Vec(D, 2, 0)]
      [] img = "b.jpg" -> [ok |-> TRUE, embedding |-> Vec(D, -1, 1)]
      [] img = "c.jpg" -> [ok |-> TRUE, embedding |-> Vec(D, 1, 1)]
      [] OTHER -> [ok |-> FALSE]

Images == {"a.jpg", "b.jpg", "c.jpg", "bad.jpg"}

ContentTypes == {None, "text/plain", "image/jpeg"}

(* the /search requests of the model: uploaded image and top_k *)
SearchRequests ==
    {<<"a.jpg", 1>>, <<"b.jpg", 2>>, <<"c.jpg", 2>>, <<"bad.jpg", 1>>,
     <<"a.jpg", 0>>, <<"a.jpg", 21>>}

(* the /add_face requests of the model: uploaded image and person_name *)
AddRequests ==
    {<<"a.jpg", None>>, <<"b.jpg", "Ada">>, <<"bad.jpg", "">>}

(* the directory listings load_synthetic_faces may find *)
DirEntries == {"a.jpg", "bad.jpg", "notes.txt"}

Listings == UNION {[1..n -> DirEntries] : n \in 0..MaxFiles}

(* f.lower().endswith(('.jpg', '.jpeg', '.png')) *)
IsImageFile(f) == f \in Images

(* content_type is set and starts with 'image/' *)
IsImageType(content_type) == content_type = "image/jpeg"

(* f"{prefix}_{n:0Wd}": the padded number is written as the number *)
FormatId(prefix, n) == <<prefix, n>>

(* a faulty default that is applied to an absent name only *)
OrUnknown_none_only(person_name) ==
    IF person_name = None THEN "Unknown" ELSE person_name

(* person_name or "Unknown" *)
OrUnknown(person_name) ==
    IF person_name = None \/ person_name = "" THEN "Unknown" ELSE person_name

(* extract_face_embedding: the normalized embedding, or HTTPException 400  *)
(* for whatever DeepFace raised                                            *)
extract_face_embedding(img) ==
    IF DeepFace_represent(img).ok
    THEN [ok |-> TRUE, embedding |-> Normalize(DeepFace_represent(img).embedding)]
    ELSE [ok |-> FALSE, status |-> 400]

----------------------------------------------------------------------------
(* Startup *)

NoResponse == [endpoint |-> None, status |-> 0]

NoLocal == [handler |-> None]

(* _face_search_service of app/services.py before its first use *)
NoService == [created |-> FALSE, collection |-> None]

(* the Milvus server before a program of the repository has connected *)
NoMilvus == [started |-> FALSE, exists |-> FALSE, rows |-> <<>>]

(* load_synthetic_faces when it is not running *)
NoLoading == [active |-> FALSE, listing |-> <<>>, face_files |-> <<>>, i |-> 0]

Init ==
    /\ face_db = FaceDatabase
    /\ started = FALSE
    /\ pc = [t \in Tasks |-> "idle"]
    /\ local = [t \in Tasks |-> NoLocal]
    /\ tmp_files = {}
    /\ response = NoResponse
    /\ app = "main_simple"
    /\ milvus = NoMilvus
    /\ service = NoService
    /\ loading = NoLoading

(* one pass of the loop of load_synthetic_faces, for file i: a file whose  *)
(* embedding extraction fails is reported and skipped                      *)
LoadFace(db, face_files, i) ==
    LET e == extract_face_embedding(face_files[i])
    IN  IF e.ok
        THEN FaceDatabase_add_face(db, e.embedding, FormatId("synthetic", i),
                 FormatId("Person", i), <<"synthetic_faces", face_files[i]>>).db
        ELSE db

(* the loop of load_synthetic_faces from file i on *)
RECURSIVE LoadFaces(_, _, _)
LoadFaces(db, face_files, i) ==
    IF i > Len(face_files) THEN db
    ELSE LoadFaces(LoadFace(db, face_files, i), face_files, i + 1)

(* a faulty max_faces without the cap on the number of files *)
max_faces_no_cap(face_files) == Len(face_files)

(* max_faces = min(100, len(face_files)) *)
max_faces(face_files) == Min(MAX_SYNTHETIC, Len(face_files))

load_synthetic_faces(db, dir_exists, listing) ==
    IF ~dir_exists THEN db
    ELSE LET face_files == SelectSeq(listing, IsImageFile)
         IN  LoadFaces(db, SubSeq(face_files, 1, max_faces(face_files)), 1)

(* startup_event: runs to completion before the first request is served *)
startup_event ==
    /\ app = "main_simple"
    /\ ~started
    /\ \E dir_exists \in BOOLEAN, listing \in Listings :
          face_db' = load_synthetic_faces(face_db, dir_exists, listing)
    /\ started' = TRUE
    /\ UNCHANGED <<pc, local, tmp_files, response>>
    /\ UNCHANGED <<app, milvus, service, loading>>

----------------------------------------------------------------------------
(* Request handlers.  Each handler runs from one await point to the next   *)
(* in one step; response is what the step sent to its client.              *)

(* tempfile.NamedTemporaryFile(delete=False): a name not in use *)
NewTmpFile == CHOOSE n \in 1..(Cardinality(tmp_files) + 1) : n \notin tmp_files

(* the adds that are suspended on reading their upload *)
PendingAdds == {t \in Tasks : pc[t] = "add_read"}

(* the temporary files no suspended handler will delete *)
Leaked == {f \in tmp_files : \A t \in Tasks : pc[t] = "idle" \/ local[t].tmp_file_path # f}

Error(endpoint, status, detail) ==
    [endpoint |-> endpoint, status |-> status, detail |-> detail]

(* the rejection of a /search request for its top_k, with the top_k the    *)
(* client sent                                                             *)
TopKError(top_k) ==
    [endpoint |-> "/search", status |-> 400,
     detail |-> "top_k must be between 1 and 20", top_k |-> top_k]

(* POST /search up to "content = await file.read()" *)
search_faces_begin(t) ==
    /\ started
    /\ pc[t] = "idle"
    /\ \E content_type \in ContentTypes, req \in SearchRequests :
          IF ~IsImageType(content_type)
          THEN /\ response' = Error("/search", 400, "File must be an image")
               /\ UNCHANGED <<pc, local, tmp_files>>
          ELSE IF req[2] < 1 \/ req[2] > MAX_TOP_K
          THEN /\ response' = TopKError(req[2])
               /\ UNCHANGED <<pc, local, tmp_files>>
          ELSE /\ pc' = [pc EXCEPT ![t] = "search_read"]
               /\ local' = [local EXCEPT ![t] =
                               [handler |-> "search_faces", file |-> req[1],
                                top_k |-> req[2], tmp_file_path |-> NewTmpFile]]
               /\ tmp_files' = tmp_files \cup {NewTmpFile}
               /\ response' = NoResponse
    /\ UNCHANGED <<face_db, started>>
    /\ UNCHANGED <<app, milvus, service, loading>>

(* a faulty /search that keeps the query embedding in the embedding list *)
search_faces_resume_stores_query(t) ==
    /\ pc[t] = "search_read"
    /\ LET e == extract_face_embedding(local[t].file)
       IN  IF ~e.ok
           THEN /\ response' = Error("/search", 400, "Failed to extract face embedding")
                /\ UNCHANGED face_db
           ELSE \E order \in SearchOrders(face_db, e.embedding) :
                   LET r == search_similar(face_db, e.embedding, local[t].top_k, order)
                   IN  /\ face_db' = [face_db EXCEPT !.embeddings = Append(@, e.embedding)]
                       /\ IF ~r.ok
                          THEN response' = Error("/search", 500, r.error)
                          ELSE response' =
                                  [endpoint |-> "/search", status |-> 200,
                                   filename |-> local[t].file,
                                   query |-> e.embedding,
                                   top_k_requested |-> local[t].top_k,
                                   results_found |-> Len(r.results),
                                   results |-> r.results,
                                   database_size |-> FaceDatabase_get_stats(face_db).total_faces]
    /\ tmp_files' = tmp_files \ {local[t].tmp_file_path}
    /\ pc' = [pc EXCEPT ![t] = "idle"]
    /\ local' = [local EXCEPT ![t] = NoLocal]
    /\ UNCHANGED started
    /\ UNCHANGED <<app, milvus, service, loading>>

(* POST /search from the return of file.read() to the response *)
search_faces_resume(t) ==
    /\ pc[t] = "search_read"
    /\ LET e == extract_face_embedding(local[t].file)
       IN  IF ~e.ok
           THEN response' = Error("/search", 400, "Failed to extract face embedding")
           ELSE \E order \in SearchOrders(face_db, e.embedding) :
                   LET r == search_similar(face_db, e.embedding, local[t].top_k, order)
                   IN  IF ~r.ok
                       THEN response' = Error("/search", 500, r.error)
                       ELSE response' =
                               [endpoint |-> "/search", status |-> 200,
                                filename |-> local[t].file,
                                query |-> e.embedding,
                                top_k_requested |-> local[t].top_k,
                                results_found |-> Len(r.results),
                                results |-> r.results,
                                database_size |-> FaceDatabase_get_stats(face_db).total_faces]
    /\ tmp_files' = tmp_files \ {local[t].tmp_file_path}
    /\ pc' = [pc EXCEPT ![t] = "idle"]
    /\ local' = [local EXCEPT ![t] = NoLocal]
    /\ UNCHANGED <<face_db, started>>
    /\ UNCHANGED <<app, milvus, service, loading>>

(* file.read() or tmp_file.write(content) raises: the handler ends before  *)
(* its try block, so nothing deletes the temporary file                    *)
read_upload_fails(t) ==
    /\ pc[t] \in {"search_read", "add_read"}
    /\ Cardinality(Leaked) < MaxLeaked
    /\ response' = Error(IF pc[t] = "search_read" THEN "/search" ELSE "/add_face",
                         500, "Internal Server Error")
    /\ pc' = [pc EXCEPT ![t] = "idle"]
    /\ local' = [local EXCEPT ![t] = NoLocal]
    /\ UNCHANGED <<face_db, started, tmp_files>>
    /\ UNCHANGED <<app, milvus, service, loading>>

(* POST /add_face up to "content = await file.read()" *)
add_face_begin(t) ==
    /\ started
    /\ pc[t] = "idle"
    /\ Len(face_db.faces) + Cardinality(PendingAdds) < MaxFaces
    /\ \E content_type \in ContentTypes, req \in AddRequests :
          IF ~IsImageType(content_type)
          THEN /\ response' = Error("/add_face", 400, "File must be an image")
               /\ UNCHANGED <<pc, local, tmp_files>>
          ELSE LET current_count == FaceDatabase_get_stats(face_db).total_faces
               IN  /\ pc' = [pc EXCEPT ![t] = "add_read"]
                   /\ local' = [local EXCEPT ![t] =
                                   [handler |-> "add_face", file |-> req[1],
                                    person_name |-> req[2],
                                    face_id |-> FormatId("uploaded", current_count + 1),
                                    tmp_file_path |-> NewTmpFile]]
                   /\ tmp_files' = tmp_files \cup {NewTmpFile}
                   /\ response' = NoResponse
    /\ UNCHANGED <<face_db, started>>
    /\ UNCHANGED <<app, milvus, service, loading>>

(* a faulty /add_face that appends to the store it saw when it began: once *)
(* a reset has replaced that store, the record goes to the discarded one   *)
add_face_resume_into_old_store(t) ==
    /\ pc[t] = "add_read"
    /\ LET e == extract_face_embedding(local[t].file)
           replaced == Len(face_db.faces) < local[t].face_id[2] - 1
       IN  IF ~e.ok
           THEN /\ response' = Error("/add_face", 400, "Failed to extract face embedding")
                /\ UNCHANGED face_db
           ELSE LET a == FaceDatabase_add_face(face_db, e.embedding, local[t].face_id,
                             OrUnknown(local[t].person_name),
                             <<"uploaded", local[t].file>>)
                IN  /\ face_db' = IF replaced THEN face_db ELSE a.db
                    /\ response' =
                          [endpoint |-> "/add_face", status |-> 200,
                           face_id |-> local[t].face_id,
                           person_name |-> OrUnknown(local[t].person_name),
                           filename |-> local[t].file,
                           embedding |-> e.embedding,
                           embedding_dimension |-> e.embedding.len,
                           total_faces |-> local[t].face_id[2]]
    /\ tmp_files' = tmp_files \ {local[t].tmp_file_path}
    /\ pc' = [pc EXCEPT ![t] = "idle"]
    /\ local' = [local EXCEPT ![t] = NoLocal]
    /\ UNCHANGED started
    /\ UNCHANGED <<app, milvus, service, loading>>

(* POST /add_face from the return of file.read() to the response *)
add_face_resume(t) ==
    /\ pc[t] = "add_read"
    /\ LET e == extract_face_embedding(local[t].file)
       IN  IF ~e.ok
           THEN /\ response' = Error("/add_face", 400, "Failed to extract face embedding")
                /\ UNCHANGED face_db
           ELSE LET a == FaceDatabase_add_face(face_db, e.embedding, local[t].face_id,
                             OrUnknown(local[t].person_name),
                             <<"uploaded", local[t].file>>)
                IN  /\ face_db' = a.db
                    /\ response' =
                          [endpoint |-> "/add_face", status |-> 200,
                           face_id |-> local[t].face_id,
                           person_name |-> OrUnknown(local[t].person_name),
                           filename |-> local[t].file,
                           embedding |-> e.embedding,
                           embedding_dimension |-> e.embedding.len,
                           total_faces |-> FaceDatabase_get_stats(a.db).total_faces]
    /\ tmp_files' = tmp_files \ {local[t].tmp_file_path}
    /\ pc' = [pc EXCEPT ![t] = "idle"]
    /\ local' = [local EXCEPT ![t] = NoLocal]
    /\ UNCHANGED started
    /\ UNCHANGED <<app, milvus, service, loading>>

(* a faulty /stats that samples the last records, face_db.faces[-5:] *)
get_stats_last_five(t) ==
    /\ started
    /\ pc[t] = "idle"
    /\ LET n == Len(face_db.faces)
           m == Min(SAMPLE_SIZE, n)
       IN  response' = [endpoint |-> "/stats", status |-> 200,
                        database_stats |-> FaceDatabase_get_stats(face_db),
                        sample_faces |->
                           [i \in 1..m |->
                               [face_id |-> face_db.faces[n - m + i].face_id,
                                person_name |-> face_db.faces[n - m + i].person_name]]]
    /\ UNCHANGED <<face_db, started, pc, local, tmp_files>>
    /\ UNCHANGED <<app, milvus, service, loading>>

(* GET /stats *)
get_stats(t) ==
    /\ started
    /\ pc[t] = "idle"
    /\ response' = [endpoint |-> "/stats", status |-> 200,
                    database_stats |-> FaceDatabase_get_stats(face_db),
                    sample_faces |->
                       [i \in 1..Min(SAMPLE_SIZE, Len(face_db.faces)) |->
                           [face_id |-> face_db.faces[i].face_id,
                            person_name |-> face_db.faces[i].person_name]]]
    /\ UNCHANGED <<face_db, started, pc, local, tmp_files>>
    /\ UNCHANGED <<app, milvus, service, loading>>

(* a faulty clear_database that empties both lists and keeps the counter *)
clear_database_keeps_counter(t) ==
    /\ started
    /\ pc[t] = "idle"
    /\ LET old_count == FaceDatabase_get_stats(face_db).total_faces
       IN  /\ face_db' = [face_db EXCEPT !.faces = <<>>, !.embeddings = <<>>]
           /\ response' = [endpoint |-> "/clear_database", status |-> 200,
                           faces_removed |-> old_count]
    /\ UNCHANGED <<started, pc, local, tmp_files>>
    /\ UNCHANGED <<app, milvus, service, loading>>

(* a faulty clear_database that empties the record list only *)
clear_database_records_only(t) ==
    /\ started
    /\ pc[t] = "idle"
    /\ LET old_count == FaceDatabase_get_stats(face_db).total_faces
       IN  /\ face_db' = [face_db EXCEPT !.faces = <<>>, !.next_id = 1]
           /\ response' = [endpoint |-> "/clear_database", status |-> 200,
                           faces_removed |-> old_count]
    /\ UNCHANGED <<started, pc, local, tmp_files>>
    /\ UNCHANGED <<app, milvus, service, loading>>

(* DELETE /clear_database *)
clear_database(t) ==
    /\ started
    /\ pc[t] = "idle"
    /\ LET old_count == FaceDatabase_get_stats(face_db).total_faces
       IN  /\ face_db' = FaceDatabase
           /\ response' = [endpoint |-> "/clear_database", status |-> 200,
                           faces_removed |-> old_count]
    /\ UNCHANGED <<started, pc, local, tmp_files>>
    /\ UNCHANGED <<app, milvus, service, loading>>

Next ==
    \/ startup_event
    \/ \E t \in Tasks : search_faces_begin(t)
    \/ \E t \in Tasks : search_faces_resume(t)
    \/ \E t \in Tasks : add_face_begin(t)
    \/ \E t \in Tasks : add_face_resume(t)
    \/ \E t \in Tasks : get_stats(t)
    \/ \E t \in Tasks : clear_database(t)

Spec == Init /\ [][Next]_vars

(* the same server when reading or writing an upload can fail *)
NextIO ==
    \/ Next
    \/ \E t \in Tasks : read_upload_fails(t)

SpecIO == Init /\ [][NextIO]_vars

----------------------------------------------------------------------------
(* The class FaceDatabase called directly, as load_synthetic_faces and the *)
(* handlers call it, with vectors of any length.                           *)

CallVectors == {Vec(D, 1, 0), Vec(D, -1, 1), Vec(D, 1, 1), Vec(D - 1, 1, 0)}

CallTopKs == {1, 2}

call_add_face ==
    /\ Len(face_db.faces) < MaxFaces
    /\ \E embedding \in CallVectors :
          LET a == FaceDatabase_add_face(face_db, embedding,
                       FormatId("face", face_db.next_id), "Unknown",
                       <<"direct", "x.jpg">>)
          IN  /\ face_db' = a.db
              /\ response' = [endpoint |-> "FaceDatabase.add_face", ok |-> TRUE,
                              embedding |-> embedding, record |-> a.record]
    /\ UNCHANGED <<started, pc, local, tmp_files>>
    /\ UNCHANGED <<app, milvus, service, loading>>

call_search_similar ==
    /\ \E query_embedding \in CallVectors, top_k \in CallTopKs :
          \E order \in SearchOrders(face_db, query_embedding) :
             LET r == search_similar(face_db, query_embedding, top_k, order)
             IN  response' =
                    IF r.ok
                    THEN [endpoint |-> "FaceDatabase.search_similar", ok |-> TRUE,
                          query |-> query_embedding, top_k |-> top_k,
                          results |-> r.results]
                    ELSE [endpoint |-> "FaceDatabase.search_similar", ok |-> FALSE,
                          query |-> query_embedding, top_k |-> top_k,
                          error |-> r.error]
    /\ UNCHANGED <<face_db, started, pc, local, tmp_files>>
    /\ UNCHANGED <<app, milvus, service, loading>>

call_get_stats ==
    /\ response' = [endpoint |-> "FaceDatabase.get_stats", ok |-> TRUE,
                    stats |-> FaceDatabase_get_stats(face_db)]
    /\ UNCHANGED <<face_db, started, pc, local, tmp_files>>
    /\ UNCHANGED <<app, milvus, service, loading>>

NextDB ==
    \/ call_add_face
    \/ call_search_similar
    \/ call_get_stats

SpecDB == Init /\ [][NextDB]_vars

----------------------------------------------------------------------------
(* The class FaceDatabase with vectors of four components: the unit        *)
(* vectors e1 and e2 and the direction of [0.9, 0.1, 0, 0].                *)

ScenarioVectors == {Vec(4, 1, 0), Vec(4, 0, 1), Normalize(Vec(4, 9, 1))}

scenario_add_face ==
    /\ Len(face_db.faces) < MaxScenario
    /\ \E embedding \in ScenarioVectors :
          LET a == FaceDatabase_add_face(face_db, embedding,
                       FormatId("face", face_db.next_id), "Unknown",
                       <<"direct", "x.jpg">>)
          IN  /\ face_db' = a.db
              /\ response' = [endpoint |-> "FaceDatabase.add_face", ok |-> TRUE,
                              embedding |-> embedding, record |-> a.record]
    /\ UNCHANGED <<started, pc, local, tmp_files>>
    /\ UNCHANGED <<app, milvus, service, loading>>

scenario_search_similar ==
    /\ \E query_embedding \in ScenarioVectors, top_k \in CallTopKs :
          \E order \in SearchOrders(face_db, query_embedding) :
             LET r == search_similar(face_db, query_embedding, top_k, order)
             IN  response' = [endpoint |-> "FaceDatabase.search_similar", ok |-> TRUE,
                              query |-> query_embedding, top_k |-> top_k,
                              results |-> r.results]
    /\ UNCHANGED <<face_db, started, pc, local, tmp_files>>
    /\ UNCHANGED <<app, milvus, service, loading>>

NextScenario ==
    \/ scenario_add_face
    \/ scenario_search_similar

SpecScenario == Init /\ [][NextScenario]_vars

----------------------------------------------------------------------------
(* The in-memory server with a store of more than SAMPLE_SIZE records:     *)
(* /stats and /clear_database, and FaceDatabase.add_face called as the     *)
(* handler add_face calls it once its upload is read.                      *)

SampledPeople == {None, "Ada"}

sample_add_face ==
    /\ started
    /\ Len(face_db.faces) < MaxSampled
    /\ \E person_name \in SampledPeople :
          LET e == extract_face_embedding("a.jpg")
              current_count == FaceDatabase_get_stats(face_db).total_faces
              a == FaceDatabase_add_face(face_db, e.embedding,
                       FormatId("uploaded", current_count + 1),
                       OrUnknown(person_name), <<"uploaded", "a.jpg">>)
          IN  /\ face_db' = a.db
              /\ response' = [endpoint |-> "FaceDatabase.add_face", ok |-> TRUE,
                              embedding |-> e.embedding, record |-> a.record]
    /\ UNCHANGED <<started, pc, local, tmp_files>>
    /\ UNCHANGED <<app, milvus, service, loading>>

NextSampled ==
    \/ startup_event
    \/ sample_add_face
    \/ \E t \in Tasks : get_stats(t)
    \/ \E t \in Tasks : clear_database(t)

SpecSampled == Init /\ [][NextSampled]_vars

----------------------------------------------------------------------------
(* The startup of the in-memory server with a directory of more than       *)
(* MAX_SYNTHETIC files: a listing of n entries whose second entry is not   *)
(* an image and whose entry bad, if there is one, cannot be extracted.     *)

LongListing(n, bad) ==
    [i \in 1..n |-> IF i = bad THEN "bad.jpg"
                    ELSE IF i = 2 THEN "notes.txt" ELSE "a.jpg"]

BadPositions == {0, 1, 50, 100, 101, 102}

(* startup_event; response keeps the directory listing the step found *)
(* startup_event up to the loop of load_synthetic_faces: the directory is  *)
(* listed once and the files to load are fixed; without a directory, or    *)
(* without an image file in it, the function is over                       *)
startup_event_begin ==
    /\ app = "main_simple"
    /\ ~started
    /\ ~loading.active
    /\ \E dir_exists \in BOOLEAN, n \in 0..MaxListed, bad \in BadPositions :
          LET listing == LongListing(n, bad)
              face_files == SelectSeq(listing, IsImageFile)
              considered == SubSeq(face_files, 1, max_faces(face_files))
          IN  IF dir_exists /\ considered # <<>>
              THEN /\ loading' = [active |-> TRUE, listing |-> listing,
                                  face_files |-> considered, i |-> 1]
                   /\ UNCHANGED <<started, response>>
              ELSE /\ started' = TRUE
                   /\ response' = [endpoint |-> "startup_event", status |-> 0,
                                   dir_exists |-> dir_exists,
                                   listing |-> listing]
                   /\ UNCHANGED loading
    /\ UNCHANGED <<face_db, pc, local, tmp_files>>
    /\ UNCHANGED <<app, milvus, service>>

(* one pass of the loop of load_synthetic_faces; after the last pass the   *)
(* startup is complete.  No request is served before that.                 *)
startup_event_pass ==
    /\ loading.active
    /\ face_db' = LoadFace(face_db, loading.face_files, loading.i)
    /\ IF loading.i < Len(loading.face_files)
       THEN /\ loading' = [loading EXCEPT !.i = loading.i + 1]
            /\ UNCHANGED <<started, response>>
       ELSE /\ loading' = NoLoading
            /\ started' = TRUE
            /\ response' = [endpoint |-> "startup_event", status |-> 0,
                            dir_exists |-> TRUE, listing |-> loading.listing]
    /\ UNCHANGED <<pc, local, tmp_files>>
    /\ UNCHANGED <<app, milvus, service>>

NextStartup ==
    \/ startup_event_begin
    \/ startup_event_pass
    \/ \E t \in Tasks : get_stats(t)

SpecStartup == Init /\ [][NextStartup]_vars

----------------------------------------------------------------------------
(* The Milvus-backed servers: app/main.py ("main") and                     *)
(* halo-face-search/app/main.py ("halo-face-search").  The collection      *)
(* face_embeddings is the sequence of its rows in insertion order;         *)
(* row_count is taken to be exact, the most favourable reading of          *)
(* get_collection_stats.  A Milvus call raises when the server does not    *)
(* answer or the collection does not exist.                                *)

MilvusApps == {"main", "halo-face-search"}

(* the /add_face requests: uploaded image, person_name and face_id; the    *)
(* handler of halo-face-search has no face_id parameter                    *)
MilvusAddRequests ==
    {<<"a.jpg", None, None>>, <<"b.jpg", "Ada", FormatId("face", 2)>>,
     <<"c.jpg", "", None>>, <<"bad.jpg", None, None>>}

InitMilvus ==
    /\ face_db = FaceDatabase
    /\ started = FALSE
    /\ pc = [t \in Tasks |-> "idle"]
    /\ local = [t \in Tasks |-> NoLocal]
    /\ tmp_files = {}
    /\ response = NoResponse
    /\ app \in MilvusApps
    /\ \E exists \in BOOLEAN : milvus = [NoMilvus EXCEPT !.exists = exists]
    /\ service = NoService
    /\ loading = NoLoading

MilvusRaises(up) == ~up \/ ~milvus.exists

(* get_collection_stats(COLLECTION_NAME).get('row_count', 0) *)
row_count == Len(milvus.rows)

(* the rows of the collection as the lists a similarity search ranks *)
RowsDb(rows) ==
    [faces |-> rows, embeddings |-> [i \in 1..Len(rows) |-> rows[i].embedding]]

(* startup_event of both servers: create the collection if it is missing;  *)
(* every exception is printed and startup goes on                          *)
milvus_startup_event ==
    /\ app \in MilvusApps
    /\ ~milvus.started
    /\ \E up \in BOOLEAN :
          milvus' = [milvus EXCEPT !.started = TRUE,
                                   !.exists = IF up THEN TRUE ELSE @]
    /\ UNCHANGED <<face_db, started, pc, local, tmp_files, response, app, service, loading>>

(* the pending adds of a Milvus-backed server *)
MilvusPendingAdds == {t \in Tasks : pc[t] = "milvus_add_read"}

(* POST /search up to "content = await file.read()"; only app/main.py      *)
(* checks top_k                                                            *)
milvus_search_faces_begin(t) ==
    /\ milvus.started
    /\ pc[t] = "idle"
    /\ \E content_type \in ContentTypes, req \in SearchRequests :
          IF ~IsImageType(content_type)
          THEN /\ response' = Error("/search", 400, "File must be an image")
               /\ UNCHANGED <<pc, local, tmp_files>>
          ELSE IF app = "main" /\ (req[2] < 1 \/ req[2] > MAX_TOP_K)
          THEN /\ response' = TopKError(req[2])
               /\ UNCHANGED <<pc, local, tmp_files>>
          ELSE /\ pc' = [pc EXCEPT ![t] = "milvus_search_read"]
               /\ local' = [local EXCEPT ![t] =
                               [handler |-> "search_faces", file |-> req[1],
                                top_k |-> req[2], tmp_file_path |-> NewTmpFile]]
               /\ tmp_files' = tmp_files \cup {NewTmpFile}
               /\ response' = NoResponse
    /\ UNCHANGED <<face_db, started, app, milvus, service, loading>>

(* a faulty result entry whose rank counts from 0 *)
MilvusHit_zero_based(rows, query_embedding, idx, i) ==
    [rank |-> i - 1,
     face_id |-> rows[idx].face_id,
     person_name |-> rows[idx].person_name,
     image_path |-> rows[idx].image_path,
     similarity_score |-> Score(query_embedding, rows[idx].embedding)]

(* one entry of the result list built from the hit at position i:          *)
(* "rank": len(results) + 1.  halo-face-search leaves image_path out, which *)
(* no property reads.                                                      *)
MilvusHit(rows, query_embedding, idx, i) ==
    [rank |-> i,
     face_id |-> rows[idx].face_id,
     person_name |-> rows[idx].person_name,
     image_path |-> rows[idx].image_path,
     similarity_score |-> Score(query_embedding, rows[idx].embedding)]

(* milvus_client.search(..., limit=top_k): the hits in descending order of *)
(* cosine similarity, ties in an order Milvus does not specify             *)
milvus_search(rows, query_embedding, top_k, order) ==
    LET top == top_indices(order, top_k)
    IN  [i \in 1..Len(top) |-> MilvusHit(rows, query_embedding, top[i], i)]

(* POST /search from the return of file.read() to the response.  In        *)
(* halo-face-search "except Exception" also catches the HTTPException 400  *)
(* of extract_face_embedding and answers 500.  Milvus refuses a limit      *)
(* below 1.                                                                *)
milvus_search_faces_resume(t) ==
    /\ pc[t] = "milvus_search_read"
    /\ LET e == extract_face_embedding(local[t].file)
       IN  IF ~e.ok
           THEN response' = IF app = "main"
                            THEN Error("/search", 400, "Failed to extract face embedding")
                            ELSE Error("/search", 500, "Face search failed")
           ELSE \E up \in BOOLEAN :
                   IF MilvusRaises(up) \/ local[t].top_k < 1
                   THEN response' = Error("/search", 500, "Face search failed")
                   ELSE \E order \in SearchOrders(RowsDb(milvus.rows), e.embedding) :
                           LET results == milvus_search(milvus.rows, e.embedding,
                                                        local[t].top_k, order)
                           IN  response' =
                                  [endpoint |-> "/search", status |-> 200,
                                   filename |-> local[t].file,
                                   query |-> e.embedding,
                                   top_k_requested |-> local[t].top_k,
                                   results_found |-> Len(results),
                                   results |-> results,
                                   database_size |-> row_count]
    /\ tmp_files' = tmp_files \ {local[t].tmp_file_path}
    /\ pc' = [pc EXCEPT ![t] = "idle"]
    /\ local' = [local EXCEPT ![t] = NoLocal]
    /\ UNCHANGED <<face_db, started, app, milvus, service, loading>>

(* POST /add_face up to "content = await file.read()": the face_id is      *)
(* chosen from the row count before the upload is read                     *)
milvus_add_face_begin(t) ==
    /\ milvus.started
    /\ pc[t] = "idle"
    /\ Len(milvus.rows) + Cardinality(MilvusPendingAdds) < MaxFaces
    /\ \E content_type \in ContentTypes, req \in MilvusAddRequests, up \in BOOLEAN :
          LET given == IF app = "main" THEN req[3] ELSE None
              generated == given = None \/ given = ""
          IN  IF ~IsImageType(content_type)
              THEN /\ response' = Error("/add_face", 400, "File must be an image")
                   /\ UNCHANGED <<pc, local, tmp_files>>
              ELSE IF generated /\ MilvusRaises(up)
              THEN /\ response' = Error("/add_face", 500, "Internal Server Error")
                   /\ UNCHANGED <<pc, local, tmp_files>>
              ELSE /\ pc' = [pc EXCEPT ![t] = "milvus_add_read"]
                   /\ local' = [local EXCEPT ![t] =
                                   [handler |-> "add_face", file |-> req[1],
                                    person_name |-> req[2],
                                    face_id |-> IF generated
                                                THEN FormatId("face", row_count + 1)
                                                ELSE given,
                                    generated |-> generated,
                                    tmp_file_path |-> NewTmpFile]]
                   /\ tmp_files' = tmp_files \cup {NewTmpFile}
                   /\ response' = NoResponse
    /\ UNCHANGED <<face_db, started, app, milvus, service, loading>>

(* POST /add_face from the return of file.read() to the response *)
milvus_add_face_resume(t) ==
    /\ pc[t] = "milvus_add_read"
    /\ LET e == extract_face_embedding(local[t].file)
       IN  IF ~e.ok
           THEN /\ response' = Error("/add_face", 400, "Failed to extract face embedding")
                /\ UNCHANGED milvus
           ELSE \E up \in BOOLEAN :
                   IF MilvusRaises(up)
                   THEN /\ response' = Error("/add_face", 500, "Failed to add face")
                        /\ UNCHANGED milvus
                   ELSE LET row == [face_id |-> local[t].face_id,
                                    embedding |-> e.embedding,
                                    image_path |-> <<"uploaded", local[t].file>>,
                                    person_name |-> OrUnknown(local[t].person_name)]
                        IN  /\ milvus' = [milvus EXCEPT !.rows = Append(@, row)]
                            /\ response' =
                                  [endpoint |-> "/add_face", status |-> 200,
                                   face_id |-> local[t].face_id,
                                   person_name |-> OrUnknown(local[t].person_name),
                                   filename |-> local[t].file,
                                   embedding |-> e.embedding,
                                   embedding_dimension |-> e.embedding.len,
                                   total_faces |-> row_count + 1]
    /\ tmp_files' = tmp_files \ {local[t].tmp_file_path}
    /\ pc' = [pc EXCEPT ![t] = "idle"]
    /\ local' = [local EXCEPT ![t] = NoLocal]
    /\ UNCHANGED <<face_db, started, app, service, loading>>

(* GET /stats: the row count and the first records of a query with an      *)
(* empty filter                                                            *)
milvus_get_stats(t) ==
    /\ milvus.started
    /\ pc[t] = "idle"
    /\ \E up \in BOOLEAN :
          response' =
             IF MilvusRaises(up) THEN Error("/stats", 500, "Failed to get stats")
             ELSE [endpoint |-> "/stats", status |-> 200,
                   database_stats |-> [total_faces |-> row_count,
                                       embedding_dimension |-> D],
                   sample_faces |->
                      [i \in 1..Min(SAMPLE_SIZE, Len(milvus.rows)) |->
                          [face_id |-> milvus.rows[i].face_id,
                           person_name |-> milvus.rows[i].person_name]]]
    /\ UNCHANGED <<face_db, started, pc, local, tmp_files, app, milvus, service, loading>>

(* DELETE /clear_database of app/main.py: drop the collection, then run    *)
(* startup_event again, which swallows its own exceptions                  *)
milvus_clear_database(t) ==
    /\ app = "main"
    /\ milvus.started
    /\ pc[t] = "idle"
    /\ \E outcome \in {"ok", "drop raises", "create raises"} :
          IF outcome = "drop raises"
          THEN /\ response' = Error("/clear_database", 500, "Failed to clear database")
               /\ UNCHANGED milvus
          ELSE /\ milvus' = [milvus EXCEPT !.rows = <<>>, !.exists = outcome = "ok"]
               /\ response' = [endpoint |-> "/clear_database", status |-> 200,
                               faces_removed |-> "all"]
    /\ UNCHANGED <<face_db, started, pc, local, tmp_files, app, service, loading>>

NextMilvus ==
    \/ milvus_startup_event
    \/ \E t \in Tasks : milvus_search_faces_begin(t)
    \/ \E t \in Tasks : milvus_search_faces_resume(t)
    \/ \E t \in Tasks : milvus_add_face_begin(t)
    \/ \E t \in Tasks : milvus_add_face_resume(t)
    \/ \E t \in Tasks : milvus_get_stats(t)
    \/ \E t \in Tasks : milvus_clear_database(t)

SpecMilvus == InitMilvus /\ [][NextMilvus]_vars

(* the three servers of the repository, one of them per behaviour *)
InitAll == Init \/ InitMilvus

NextAll == Next \/ NextMilvus

SpecAll == InitAll /\ [][NextAll]_vars

----------------------------------------------------------------------------
(* app/services.py: the class FaceSearchService over the collection        *)
(* face_recognition_db, which the ingestion scripts fill.  Its metric is   *)
(* L2, for which Milvus reports the squared Euclidean distance.            *)

(* get_face_embedding: the embedding as DeepFace returns it, not           *)
(* normalized; ok is FALSE for the None returned when DeepFace raises      *)
(* ValueError                                                              *)
get_face_embedding(img) ==
    IF DeepFace_represent(img).ok
    THEN [ok |-> TRUE, embedding |-> DeepFace_represent(img).embedding]
    ELSE [ok |-> FALSE]

ServiceRow(n, img) ==
    [id |-> FormatId("lfw", n), image_path |-> <<"lfw", img>>,
     embedding |-> get_face_embedding(img).embedding]

(* the contents the collection can have when the service starts *)
ServiceCollections ==
    {<<>>, <<ServiceRow(1, "a.jpg")>>,
     <<ServiceRow(1, "c.jpg"), ServiceRow(2, "b.jpg")>>,
     <<ServiceRow(1, "a.jpg"), ServiceRow(2, "a.jpg")>>}

InitService ==
    /\ face_db = FaceDatabase
    /\ started = FALSE
    /\ pc = [t \in Tasks |-> "idle"]
    /\ local = [t \in Tasks |-> NoLocal]
    /\ tmp_files = {}
    /\ response = NoResponse
    /\ app = "services"
    /\ \E exists \in BOOLEAN, rows \in ServiceCollections :
          milvus = [started |-> FALSE, exists |-> exists,
                    rows |-> IF exists THEN rows ELSE <<>>]
    /\ service = NoService
    /\ loading = NoLoading

(* FaceSearchService(): _connect_to_milvus gets or creates the collection; *)
(* when that raises, the error is printed and collection stays None        *)
FaceSearchService(up) ==
    [created |-> TRUE, collection |-> IF up THEN "face_recognition_db" ELSE None]

(* a faulty get_face_search_service that connects again while the         *)
(* instance has no collection                                              *)
get_face_search_service_retries ==
    /\ app = "services"
    /\ IF ~service.created \/ service.collection = None
       THEN \E up \in BOOLEAN :
               /\ service' = FaceSearchService(up)
               /\ milvus' = [milvus EXCEPT !.exists = IF up THEN TRUE ELSE @]
               /\ response' = [endpoint |-> "get_face_search_service",
                               created |-> TRUE, instance |-> service']
       ELSE /\ response' = [endpoint |-> "get_face_search_service",
                            created |-> FALSE, instance |-> service]
            /\ UNCHANGED <<service, milvus>>
    /\ UNCHANGED <<face_db, started, pc, local, tmp_files, app, loading>>

(* get_face_search_service: the singleton, created at the first call *)
get_face_search_service ==
    /\ app = "services"
    /\ IF ~service.created
       THEN \E up \in BOOLEAN :
               /\ service' = FaceSearchService(up)
               /\ milvus' = [milvus EXCEPT !.exists = IF up THEN TRUE ELSE @]
               /\ response' = [endpoint |-> "get_face_search_service",
                               created |-> TRUE, instance |-> service']
       ELSE /\ response' = [endpoint |-> "get_face_search_service",
                            created |-> FALSE, instance |-> service]
            /\ UNCHANGED <<service, milvus>>
    /\ UNCHANGED <<face_db, started, pc, local, tmp_files, app, loading>>

DistSq(a, b) ==
    (a.c[1] - b.c[1]) * (a.c[1] - b.c[1]) + (a.c[2] - b.c[2]) * (a.c[2] - b.c[2])

(* the orders in which collection.search can return the rows: ascending    *)
(* distance, rows at the same distance in any order                        *)
L2Orders(rows, query_vector) ==
    {p \in Perms(Len(rows)) :
        \A i, j \in 1..Len(rows) :
            i < j => DistSq(query_vector, rows[p[i]].embedding)
                        <= DistSq(query_vector, rows[p[j]].embedding)}

(* search_similar_faces, for the order of the hits *)
search_similar_faces(rows, query_vector, top_k, order) ==
    LET hits == SliceTo(order, top_k)
    IN  [i \in 1..Len(hits) |->
            [id |-> rows[hits[i]].id,
             distance |-> DistSq(query_vector, rows[hits[i]].embedding),
             image_path |-> rows[hits[i]].image_path]]

(* a call of find_similar_faces: its arguments, what it gave its caller,   *)
(* the list returned or the exception raised, and what it printed          *)
ServiceAnswer(image_path, top_k, returned, raised, log) ==
    [endpoint |-> "find_similar_faces", image_path |-> image_path, top_k |-> top_k,
     returned |-> returned, raised |-> raised, log |-> log]

(* FaceSearchService.find_similar_faces *)
find_similar_faces ==
    /\ service.created
    /\ \E image_path \in Images, top_k \in CallTopKs, up \in BOOLEAN :
          LET query_embedding == get_face_embedding(image_path)
          IN  IF ~query_embedding.ok
              THEN response' = ServiceAnswer(image_path, top_k, <<>>, None,
                                             "Error processing image")
              ELSE IF service.collection = None
              THEN response' = ServiceAnswer(image_path, top_k, <<>>, "RuntimeError", None)
              ELSE IF MilvusRaises(up)
              THEN response' = ServiceAnswer(image_path, top_k, <<>>, None,
                                             "Error during search")
              ELSE \E order \in L2Orders(milvus.rows, query_embedding.embedding) :
                      response' = ServiceAnswer(image_path, top_k,
                          search_similar_faces(milvus.rows, query_embedding.embedding,
                                               top_k, order),
                          None, None)
    /\ UNCHANGED <<face_db, started, pc, local, tmp_files, app, milvus, service, loading>>

(* FaceSearchService.close: release the collection, if there is one *)
close ==
    /\ service.created
    /\ response' = [endpoint |-> "close", released |-> service.collection # None]
    /\ UNCHANGED <<face_db, started, pc, local, tmp_files, app, milvus, service, loading>>

NextService ==
    \/ get_face_search_service
    \/ find_similar_faces
    \/ close

SpecService == InitService /\ [][NextService]_vars

----------------------------------------------------------------------------
(* scripts/generate_embeddings.py: the class FaceEmbeddingGenerator, which *)
(* fills the collection face_embeddings from a directory of images.  The   *)
(* primary key of the collection is generated (auto_id), so face_id is an  *)
(* ordinary field.                                                         *)

(* the entries of the directory of faces, and its listings: any of its     *)
(* entries in any order                                                    *)
IngestEntries == {"a.jpg", "b.jpg", "bad.jpg", "notes.txt"}

IngestListings ==
    UNION {{l \in [1..n -> IngestEntries] :
               \A i, j \in 1..n : l[i] = l[j] => i = j} : n \in 0..MaxIngestFiles}

(* the batch sizes of the calls *)
BatchSizes == {1, 2}

(* Path(f).suffix.lower() in image_extensions *)
IsIngestImage(f) == f \in Images

(* Path(img_file).stem: the file name without its extension *)
Stem(img_file) ==
    CASE img_file = "a.jpg" -> "a"
      [] img_file = "b.jpg" -> "b"
      [] img_file = "c.jpg" -> "c"
      [] img_file = "bad.jpg" -> "bad"
      [] OTHER -> img_file

(* FaceEmbeddingGenerator.extract_face_embedding: the normalized           *)
(* embedding, or zeros and False when DeepFace raises                      *)
generator_extract_face_embedding(image_path) ==
    IF DeepFace_represent(image_path).ok
    THEN [ok |-> TRUE, embedding |-> Normalize(DeepFace_represent(image_path).embedding)]
    ELSE [ok |-> FALSE, embedding |-> Vec(D, 0, 0)]

InitIngest ==
    /\ face_db = FaceDatabase
    /\ started = FALSE
    /\ pc = [t \in Tasks |-> "idle"]
    /\ local = [t \in Tasks |-> NoLocal]
    /\ tmp_files = {}
    /\ response = NoResponse
    /\ app = "generate_embeddings"
    /\ \E exists \in BOOLEAN : milvus = [NoMilvus EXCEPT !.exists = exists]
    /\ service = NoService
    /\ loading = NoLoading

(* ensure_collection_exists: create the collection if it is missing and    *)
(* load it; when the server does not answer the exception ends the script  *)
ensure_collection_exists ==
    /\ app = "generate_embeddings"
    /\ ~milvus.started
    /\ \E up \in BOOLEAN :
          IF up
          THEN /\ milvus' = [milvus EXCEPT !.started = TRUE, !.exists = TRUE]
               /\ response' = [endpoint |-> "ensure_collection_exists", raised |-> FALSE]
          ELSE /\ response' = [endpoint |-> "ensure_collection_exists", raised |-> TRUE]
               /\ UNCHANGED milvus
    /\ UNCHANGED <<face_db, started, pc, local, tmp_files, app, service, loading>>

(* get_existing_faces: the face_ids of the collection, or the empty set    *)
(* when the query raises                                                   *)
get_existing_faces(up) ==
    IF MilvusRaises(up) THEN {}
    ELSE {milvus.rows[i].face_id : i \in 1..Len(milvus.rows)}

(* the loop of process_face_dataset from file i on; st holds the rows of   *)
(* the collection, batch_data and the two counters, insert_up[i] says      *)
(* whether the server answers the insert of pass i                         *)
RECURSIVE IngestLoop(_, _, _, _, _)
IngestLoop(new_faces, i, st, batch_size, insert_up) ==
    IF i > Len(new_faces) THEN st
    ELSE LET img_file == new_faces[i]
             face_id == Stem(img_file)
             e == generator_extract_face_embedding(img_file)
             added == IF e.ok
                      THEN [st EXCEPT !.batch_data =
                                         Append(@, [face_id |-> face_id,
                                                    embedding |-> e.embedding,
                                                    image_path |-> <<"lfw_faces", img_file>>,
                                                    person_name |-> face_id]),
                                      !.successful = @ + 1]
                      ELSE [st EXCEPT !.failed = @ + 1]
             inserts == /\ \/ Len(added.batch_data) >= batch_size
                           \/ i = Len(new_faces)
                        /\ added.batch_data # <<>>
             after == IF inserts /\ ~MilvusRaises(insert_up[i])
                      THEN [added EXCEPT !.rows = @ \o added.batch_data,
                                         !.batch_data = <<>>]
                      ELSE added
         IN  IngestLoop(new_faces, i + 1, after, batch_size, insert_up)

(* what a call of process_face_dataset gave its caller: None when there is *)
(* nothing new, the two counters, or the exception of get_collection_stats *)
IngestAnswer(listing, batch_size, outcome, st) ==
    [endpoint |-> "process_face_dataset", listing |-> listing,
     batch_size |-> batch_size, outcome |-> outcome,
     successful |-> st.successful, failed |-> st.failed,
     batch_data |-> st.batch_data]

(* process_face_dataset(faces_dir, batch_size, max_faces); 0 stands for    *)
(* the values of max_faces that count as not given                         *)
process_face_dataset ==
    /\ app = "generate_embeddings"
    /\ milvus.started
    /\ Len(milvus.rows) < MaxIngested
    /\ \E listing \in IngestListings, batch_size \in BatchSizes,
          max_faces_given \in {0, 1}, query_up \in BOOLEAN :
          LET all_files == SelectSeq(listing, IsIngestImage)
              image_files == IF max_faces_given # 0
                             THEN SliceTo(all_files, max_faces_given)
                             ELSE all_files
              existing_faces == get_existing_faces(query_up)
              new_faces == SelectSeq(image_files,
                                     LAMBDA f : Stem(f) \notin existing_faces)
              st0 == [rows |-> milvus.rows, batch_data |-> <<>>,
                      successful |-> 0, failed |-> 0]
          IN  IF new_faces = <<>>
              THEN /\ response' = IngestAnswer(listing, batch_size, "None", st0)
                   /\ UNCHANGED milvus
              ELSE \E insert_up \in [1..Len(new_faces) -> BOOLEAN],
                      stats_up \in BOOLEAN :
                      LET st == IngestLoop(new_faces, 1, st0, batch_size, insert_up)
                      IN  /\ milvus' = [milvus EXCEPT !.rows = st.rows]
                          /\ response' = IngestAnswer(listing, batch_size,
                                             IF MilvusRaises(stats_up) THEN "raised"
                                             ELSE "counts", st)
    /\ UNCHANGED <<face_db, started, pc, local, tmp_files, app, service, loading>>

NextIngest ==
    \/ ensure_collection_exists
    \/ process_face_dataset

SpecIngest == InitIngest /\ [][NextIngest]_vars

----------------------------------------------------------------------------
(* Properties *)

Range(s) == {s[i] : i \in 1..Len(s)}

(* the query embeddings a /search request can produce *)
Queries ==
    {extract_face_embedding(img).embedding :
        img \in {i \in Images : DeepFace_represent(i).ok}}

(* the values of top_k the properties are evaluated for *)
CheckKs == (1..MaxFaces) \cup {MAX_TOP_K}

Tie(q, a, b) == ~SimLess(q, a, b) /\ ~SimLess(q, b, a)

AddSucceeded(r) == r.endpoint = "/add_face" /\ r.status = 200

SearchSucceeded(r) == r.endpoint = "/search" /\ r.status = 200

DistinctEmbeddings(db) ==
    \A i, j \in 1..Len(db.embeddings) : i # j => db.embeddings[i] # db.embeddings[j]

(* C1: in every state a request can run in, the record list and the        *)
(* embedding list have the same length, and embedding i is the embedding   *)
(* of the image that record i was created for.                             *)
C1_NoPartialWrite ==
    /\ Len(face_db.faces) = Len(face_db.embeddings)
    /\ \A i \in 1..Len(face_db.faces) :
          LET e == extract_face_embedding(face_db.faces[i].image_path[2])
          IN  e.ok /\ i <= Len(face_db.embeddings) /\ face_db.embeddings[i] = e.embedding

(* a search is answered from a non-empty store while an add is suspended *)
C1_Witness ==
    /\ SearchSucceeded(response)
    /\ response.results_found >= 1
    /\ \E t \in Tasks : pc[t] = "add_read"

(* C2, first part: a successful add appends exactly one record and the     *)
(* submitted embedding, and reports the new count.                         *)
C2_AddStep ==
    AddSucceeded(response') =>
        /\ Len(face_db'.faces) = Len(face_db.faces) + 1
        /\ SubSeq(face_db'.faces, 1, Len(face_db.faces)) = face_db.faces
        /\ face_db'.faces[Len(face_db'.faces)].face_id = response'.face_id
        /\ face_db'.embeddings = Append(face_db.embeddings, response'.embedding)
        /\ response'.total_faces = Len(face_db.faces) + 1

(* C2, second part: the store changes only by a successful add, a clear    *)
(* or the startup load.                                                    *)
C2_OnlyAdds ==
    face_db' # face_db =>
        \/ AddSucceeded(response')
        \/ response'.endpoint = "/clear_database"
        \/ ~started /\ started'

(* C2, third part: when the stored vectors are distinct, searching with    *)
(* any of them and top_k = 1 returns the record stored with it.            *)
C2_Findable ==
    DistinctEmbeddings(face_db) =>
        \A i \in 1..Len(face_db.embeddings) :
            \A order \in SearchOrders(face_db, face_db.embeddings[i]) :
                LET r == search_similar(face_db, face_db.embeddings[i], 1, order)
                IN  /\ r.ok
                    /\ top_indices(order, 1) = <<i>>
                    /\ r.results = <<SearchResult(face_db, face_db.embeddings[i], i, 1)>>

C3_UniqueFaceIds ==
    \A i, j \in 1..Len(face_db.faces) :
        i # j => face_db.faces[i].face_id # face_db.faces[j].face_id

(* C4, state part: the two lists are empty together, and an empty store    *)
(* reports total_faces 0 and answers every search with the empty list.     *)
C4_EmptyObserved ==
    /\ Len(face_db.faces) = 0 <=> Len(face_db.embeddings) = 0
    /\ response.endpoint = "/stats" =>
          response.database_stats.total_faces = Len(face_db.faces)
    /\ SearchSucceeded(response) => response.database_size = Len(face_db.faces)
    /\ Len(face_db.faces) = 0 =>
          /\ FaceDatabase_get_stats(face_db).total_faces = 0
          /\ SearchSucceeded(response) => response.results = <<>>
          /\ \A q \in Queries :
                \A order \in SearchOrders(face_db, q), k \in CheckKs :
                    search_similar(face_db, q, k, order) = [ok |-> TRUE, results |-> <<>>]

(* C4, step part: clear_database empties both lists in its one step, and   *)
(* an empty store stays empty until an add succeeds.                       *)
C4_ClearStep ==
    /\ response'.endpoint = "/clear_database" =>
          face_db'.faces = <<>> /\ face_db'.embeddings = <<>>
    /\ (started /\ Len(face_db.faces) = 0 /\ ~AddSucceeded(response')) =>
          face_db'.faces = <<>> /\ face_db'.embeddings = <<>>

(* C4: after clear_database and until the next add, stats report 0 records *)
(* and every search returns the empty list; records and embeddings are     *)
(* cleared in one step.                                                    *)
C4_ResetAtomicity == []C4_EmptyObserved /\ [][C4_ClearStep]_vars

(* a non-empty store has just been cleared while a search is suspended *)
C4_Witness ==
    /\ response.endpoint = "/clear_database"
    /\ response.faces_removed >= 1
    /\ face_db = FaceDatabase
    /\ \E t \in Tasks : pc[t] = "search_read"

(* C5: the scores of a result list are in non-increasing order, and no     *)
(* stored vector that is left out is more similar to the query than the    *)
(* last result.                                                            *)
C5_RankOrdering ==
    \A q \in Queries :
        \A order \in SearchOrders(face_db, q), k \in CheckKs :
            LET r == search_similar(face_db, q, k, order)
                top == top_indices(order, k)
            IN  /\ r.ok
                /\ \A i \in 1..(Len(r.results) - 1) :
                      r.results[i].similarity_score >= r.results[i + 1].similarity_score
                /\ \A idx \in 1..Len(face_db.embeddings) :
                      (idx \notin Range(top) /\ Len(top) > 0) =>
                          /\ Score(q, face_db.embeddings[idx])
                                <= r.results[Len(top)].similarity_score
                          /\ ~SimLess(q, face_db.embeddings[top[Len(top)]],
                                      face_db.embeddings[idx])

(* a search returned one of two records and left out the less similar one *)
C5_Witness ==
    /\ SearchSucceeded(response)
    /\ Len(response.results) = 1
    /\ \E idx \in 1..Len(face_db.embeddings) :
          Score(response.query, face_db.embeddings[idx])
             < response.results[1].similarity_score

(* C6: of two stored vectors with the same similarity to the query, the    *)
(* one inserted first comes first in the result list, and it is the one    *)
(* returned when only one of them fits within k.                           *)
C6_TieBreakByInsertion ==
    \A q \in Queries :
        \A order \in SearchOrders(face_db, q), k \in CheckKs :
            LET top == top_indices(order, k)
            IN  \A i, j \in 1..Len(face_db.embeddings) :
                    (i < j /\ Tie(q, face_db.embeddings[i], face_db.embeddings[j])) =>
                        /\ j \in Range(top) => i \in Range(top)
                        /\ \A a, b \in 1..Len(top) :
                              (top[a] = i /\ top[b] = j) => a < b

(* C7: a search with 1 <= k <= 20 returns exactly min(k, total_records)    *)
(* results, and no record twice.                                           *)
C7_TopKBound ==
    /\ \A q \in Queries :
          \A order \in SearchOrders(face_db, q), k \in CheckKs :
              LET r == search_similar(face_db, q, k, order)
                  top == top_indices(order, k)
              IN  /\ r.ok
                  /\ Len(r.results) =
                        Min(k, FaceDatabase_get_stats(face_db).total_faces)
                  /\ \A a, b \in 1..Len(top) : a # b => top[a] # top[b]
    /\ SearchSucceeded(response) =>
          /\ response.results_found =
                Min(response.top_k_requested, response.database_size)
          /\ Len(response.results) = response.results_found

(* a search with k below the number of records returned exactly k results *)
C7_Witness ==
    /\ SearchSucceeded(response)
    /\ response.top_k_requested < response.database_size
    /\ response.results_found = response.top_k_requested

(* C8, state part: on an empty store every search returns the empty list   *)
(* and none fails in search_similar.                                       *)
C8_EmptyIsEmpty ==
    Len(face_db.faces) = 0 =>
        /\ \A q \in Queries :
              \A order \in SearchOrders(face_db, q), k \in CheckKs :
                  search_similar(face_db, q, k, order) = [ok |-> TRUE, results |-> <<>>]
        /\ response.endpoint = "/search" =>
              /\ ~(response.status = 500 /\ response.detail = "ValueError")
              /\ response.status = 200 => response.results = <<>>

(* C8, step part: a search request leaves the store as it was. *)
C8_SearchKeepsStore == response'.endpoint = "/search" => face_db' = face_db

(* C8: a search on an empty store returns the empty list and never an      *)
(* error, at startup and after a reset, and leaves the store empty.        *)
C8_EmptySearch == []C8_EmptyIsEmpty /\ [][C8_SearchKeepsStore]_vars

(* a search was answered with the empty list from an empty store *)
C8_Witness ==
    /\ SearchSucceeded(response)
    /\ response.results = <<>>
    /\ response.database_size = 0
    /\ Len(face_db.faces) = 0

(* C9: adding a vector whose length is not D fails with DimensionMismatch  *)
(* and leaves the record list, the embedding list and the id counter as    *)
(* they were.                                                              *)
C9_DimensionCheckOnInsert ==
    [][(response'.endpoint = "FaceDatabase.add_face" /\ response'.embedding.len # D) =>
          /\ ~response'.ok
          /\ response'.error = "DimensionMismatch"
          /\ face_db' = face_db]_vars

(* C10: a search whose query length is not D fails with DimensionMismatch, *)
(* on an empty store too, and leaves the store as it was.                  *)
C10_DimensionCheckOnQuery ==
    [][(response'.endpoint = "FaceDatabase.search_similar" /\ response'.query.len # D) =>
          /\ ~response'.ok
          /\ response'.error = "DimensionMismatch"
          /\ face_db' = face_db]_vars

(* C11: in every search endpoint, a request whose top_k is below 1 or      *)
(* above 20 is rejected before its upload is read, so before an embedding  *)
(* is extracted and before the store or the index is consulted, and a      *)
(* request is rejected for its top_k only when the top_k is out of range.  *)
C11_TopKValidation ==
    /\ \A t \in Tasks :
          pc[t] \in {"search_read", "milvus_search_read"} =>
              (1 <= local[t].top_k /\ local[t].top_k <= MAX_TOP_K)
    /\ (response.endpoint = "/search" /\ response.status = 400
           /\ response.detail = "top_k must be between 1 and 20") =>
              (response.top_k < 1 \/ response.top_k > MAX_TOP_K)

C12_Ids ==
    /\ \A i \in 1..Len(face_db.faces) : face_db.faces[i].id = i
    /\ face_db.next_id = Len(face_db.faces) + 1

C12_ResetStep ==
    response'.endpoint = "/clear_database" =>
        /\ face_db'.faces = <<>>
        /\ face_db'.next_id = 1

(* C12: the records in the store carry the ids 1..N in insertion order,    *)
(* the next id to be assigned is N+1, and a reset brings the counter back  *)
(* to 1, so the first add after it receives id 1.                          *)
C12_SequentialIds == []C12_Ids /\ [][C12_ResetStep]_vars

(* an add that began before a reset completed after it: its face_id was    *)
(* derived from the old count, and it is the only record, with id 1        *)
C12_Witness ==
    /\ AddSucceeded(response)
    /\ Len(face_db.faces) = 1
    /\ face_db.faces[1].id = 1
    /\ face_db.faces[1].face_id = FormatId("uploaded", 2)

(* the records of the store whose vector is a number vector *)
Stored == {i \in 1..Len(face_db.embeddings) : ~face_db.embeddings[i].nan}

(* search(V, 1) for the vector V of record i returns record i with the     *)
(* maximum score                                                           *)
SelfFirst(i, order) ==
    LET r == search_similar(face_db, face_db.embeddings[i], 1, order)
    IN  /\ r.ok
        /\ Len(r.results) = 1
        /\ r.results[1].similarity_score = 10000
        /\ top_indices(order, 1) = <<i>>

(* search(V, 1) for the vector V of record i returns a record that holds V *)
(* with the maximum score                                                  *)
SelfFound(i, order) ==
    LET r == search_similar(face_db, face_db.embeddings[i], 1, order)
    IN  /\ r.ok
        /\ Len(r.results) = 1
        /\ r.results[1].similarity_score = 10000
        /\ face_db.embeddings[top_indices(order, 1)[1]] = face_db.embeddings[i]

(* C13 as stated: for every record X of the store, with vector V,          *)
(* search(V, 1) returns X with the score 1.0, also when another record     *)
(* holds the same vector V.                                                *)
C13_SelfSimilarity ==
    \A i \in Stored :
        \A order \in SearchOrders(face_db, face_db.embeddings[i]) : SelfFirst(i, order)

(* C13, amended: for every record X of the store, with vector V,           *)
(* search(V, 1) returns a record that holds V with the score 1.0, and that *)
(* record is X when no other record holds V.                               *)
C13_SelfSimilarityUnique ==
    \A i \in Stored :
        \A order \in SearchOrders(face_db, face_db.embeddings[i]) :
            /\ SelfFound(i, order)
            /\ (\A j \in Stored : j # i => face_db.embeddings[j] # face_db.embeddings[i])
                  => SelfFirst(i, order)

(* a search for the vector of the older of two different records returned  *)
(* that record with the score 1.0                                          *)
C13_Witness ==
    /\ SearchSucceeded(response)
    /\ response.top_k_requested = 1
    /\ Len(face_db.faces) = 2
    /\ face_db.embeddings[1] # face_db.embeddings[2]
    /\ response.query = face_db.embeddings[1]
    /\ response.results_found = 1
    /\ response.results[1].face_id = face_db.faces[1].face_id
    /\ response.results[1].similarity_score = 10000

(* C14: with the records e1, e2 and the direction of [0.9, 0.1, 0, 0]      *)
(* inserted in that order, search(e1, 2) returns exactly two results: the  *)
(* first record at rank 1 with score 1.0 and the third record at rank 2    *)
(* with score 0.9939; the second record is not returned.                   *)
C14_Scenario ==
    face_db.embeddings = <<Vec(4, 1, 0), Vec(4, 0, 1), Normalize(Vec(4, 9, 1))>> =>
        \A order \in SearchOrders(face_db, Vec(4, 1, 0)) :
            LET r == search_similar(face_db, Vec(4, 1, 0), 2, order)
            IN  /\ r.ok
                /\ Len(r.results) = 2
                /\ r.results[1].rank = 1
                /\ r.results[1].face_id = face_db.faces[1].face_id
                /\ r.results[1].similarity_score = 10000
                /\ r.results[2].rank = 2
                /\ r.results[2].face_id = face_db.faces[3].face_id
                /\ r.results[2].similarity_score = 9939
                /\ face_db.faces[2].face_id # face_db.faces[1].face_id
                /\ face_db.faces[2].face_id # face_db.faces[3].face_id

(* search(e1, 2) was answered from the store of the three records *)
C14_Witness ==
    /\ face_db.embeddings = <<Vec(4, 1, 0), Vec(4, 0, 1), Normalize(Vec(4, 9, 1))>>
    /\ response.endpoint = "FaceDatabase.search_similar"
    /\ response.query = Vec(4, 1, 0)
    /\ response.top_k = 2
    /\ Len(response.results) = 2
    /\ response.results[2].face_id = FormatId("face", 3)

(* a step of a /search request: the request was rejected or answered, or   *)
(* its handler was suspended or resumed                                    *)
SearchStep ==
    \/ response'.endpoint = "/search"
    \/ \E t \in Tasks : pc'[t] # pc[t] /\ "search_read" \in {pc[t], pc'[t]}

(* C15: no step of a search request, whether the search succeeds, returns  *)
(* an empty list or fails, changes the record list, the embedding list or  *)
(* the id counter.                                                         *)
C15_SearchReadOnly ==
    [][SearchStep =>
          /\ face_db'.faces = face_db.faces
          /\ face_db'.embeddings = face_db.embeddings
          /\ face_db'.next_id = face_db.next_id]_vars

(* a search on a non-empty store failed, and the store is whole *)
C15_Witness ==
    /\ response = Error("/search", 400, "Failed to extract face embedding")
    /\ Len(face_db.faces) >= 1
    /\ Len(face_db.embeddings) = Len(face_db.faces)
    /\ face_db.next_id = Len(face_db.faces) + 1

(* C16: in find_similar_faces a failure of the index search reaches the    *)
(* caller as an error with a kind: a call in which the search failed does  *)
(* not return a list.                                                      *)
C16_ErrorsNotSwallowed ==
    (response.endpoint = "find_similar_faces" /\ response.log = "Error during search") =>
        response.raised # None

(* the records of the store of the server that is running *)
StoreRecords == IF app = "main_simple" THEN face_db.faces ELSE milvus.rows

(* the label a record is to carry for the name a client sent *)
ExpectedLabel(person_name) ==
    IF person_name \in {None, ""} THEN "Unknown" ELSE person_name

(* a successful add stores and answers the label expected for its name *)
C17_AddStep ==
    \A t \in Tasks :
        (pc[t] \in {"add_read", "milvus_add_read"} /\ pc'[t] = "idle"
            /\ AddSucceeded(response')) =>
           /\ response'.person_name = ExpectedLabel(local[t].person_name)
           /\ StoreRecords'[Len(StoreRecords')].person_name =
                 ExpectedLabel(local[t].person_name)
           /\ StoreRecords'[Len(StoreRecords')].face_id = response'.face_id

(* no record is stored by add_face without a label, and a search result    *)
(* carries the label of the stored record it is for                        *)
C17_Labels ==
    /\ \A i \in 1..Len(StoreRecords) :
          StoreRecords[i].image_path[1] = "uploaded" =>
              StoreRecords[i].person_name \notin {None, ""}
    /\ SearchSucceeded(response) =>
          \A i \in 1..Len(response.results) :
              \E j \in 1..Len(StoreRecords) :
                  /\ StoreRecords[j].face_id = response.results[i].face_id
                  /\ StoreRecords[j].image_path = response.results[i].image_path
                  /\ StoreRecords[j].person_name = response.results[i].person_name

(* C17: when add_face is called without a person name, absent or empty,    *)
(* the stored record, the add response and the search results for that     *)
(* record carry the label "Unknown"; a non-empty name is stored unchanged. *)
C17_LabelDefault == []C17_Labels /\ [][C17_AddStep]_vars

(* an add with the empty name was stored by app/main.py as "Unknown" *)
C17_Witness ==
    /\ app = "main"
    /\ AddSucceeded(response)
    /\ response.filename = "c.jpg"
    /\ response.person_name = "Unknown"
    /\ milvus.rows[Len(milvus.rows)].person_name = "Unknown"

(* C18: the i-th element of every result list a search endpoint answers    *)
(* has rank i, so a list of m results carries the ranks 1..m, and the      *)
(* scores do not increase along the list, in each of the three servers.    *)
C18_RanksConsecutive ==
    SearchSucceeded(response) =>
        /\ response.results_found = Len(response.results)
        /\ \A i \in 1..Len(response.results) :
              /\ response.results[i].rank = i
              /\ i < Len(response.results) =>
                    response.results[i].similarity_score >=
                        response.results[i + 1].similarity_score

(* halo-face-search answered a search with two results *)
C18_Witness ==
    /\ app = "halo-face-search"
    /\ SearchSucceeded(response)
    /\ Len(response.results) = 2
    /\ response.results[1].rank = 1
    /\ response.results[2].rank = 2

(* the answer of /stats shows the store: the number of records and the     *)
(* first min(5, N) of them in insertion order                              *)
C19_StatsView ==
    response.endpoint = "/stats" =>
        LET n == Len(face_db.faces)
            sample == response.sample_faces
        IN  /\ response.database_stats.total_faces = n
            /\ Len(sample) = IF n < 5 THEN n ELSE 5
            /\ \A i \in 1..Len(sample) :
                  /\ sample[i].face_id = face_db.faces[i].face_id
                  /\ sample[i].person_name = face_db.faces[i].person_name

(* the number of records is the number of adds since the startup load      *)
(* began or since the last reset, and /stats changes nothing               *)
C19_StatsStep ==
    /\ response'.endpoint = "/stats" => face_db' = face_db
    /\ response'.endpoint = "FaceDatabase.add_face" =>
          Len(face_db'.faces) = Len(face_db.faces) + 1
    /\ response'.endpoint = "/clear_database" => Len(face_db'.faces) = 0
    /\ (started /\ response'.endpoint \in {"/stats", None}) =>
          Len(face_db'.faces) = Len(face_db.faces)

(* the store with its embedding list replaced *)
WithEmbeddings(embeddings) == [face_db EXCEPT !.embeddings = embeddings]

(* other vectors in the embedding list, as many as there are *)
OtherEmbeddings == [i \in 1..Len(face_db.embeddings) |-> Vec(D, 1, 1)]

(* C19 as stated: /stats shows the number of records and the first         *)
(* min(5, N) of them, changes nothing, and does not read the embeddings:   *)
(* its statistics are the same whatever the embedding list holds.          *)
C19_StatsReadOnly ==
    /\ []C19_StatsView
    /\ [][C19_StatsStep]_vars
    /\ [](\A embeddings \in {<<>>, OtherEmbeddings} :
             FaceDatabase_get_stats(WithEmbeddings(embeddings)) =
                 FaceDatabase_get_stats(face_db))

(* C19, amended: /stats shows the number of records and the first          *)
(* min(5, N) of them, changes nothing, and reads no embedding vector: its  *)
(* statistics depend on the embedding list only through its being empty.   *)
C19_StatsReadsNoVector ==
    /\ []C19_StatsView
    /\ [][C19_StatsStep]_vars
    /\ [](FaceDatabase_get_stats(WithEmbeddings(OtherEmbeddings)) =
             FaceDatabase_get_stats(face_db))

(* /stats answered from a store of more than five records *)
C19_Witness ==
    /\ response.endpoint = "/stats"
    /\ Len(face_db.faces) > 5
    /\ Len(response.sample_faces) = 5
    /\ response.database_stats.total_faces = Len(face_db.faces)

(* the face_ids of the records in the collection *)
RowFaceIds == {milvus.rows[i].face_id : i \in 1..Len(milvus.rows)}

(* C20: in the Milvus-backed add_face, a face_id generated from the row    *)
(* count is not the face_id of a record already in the collection, neither *)
(* when it is generated nor when its record is inserted.                   *)
C20_GeneratedIdsFresh ==
    [][\A t \in Tasks :
          /\ (pc[t] = "idle" /\ pc'[t] = "milvus_add_read" /\ local'[t].generated) =>
                local'[t].face_id \notin RowFaceIds
          /\ (pc[t] = "milvus_add_read" /\ pc'[t] = "idle" /\ local[t].generated
                 /\ AddSucceeded(response')) =>
                local[t].face_id \notin RowFaceIds]_vars

(* C21: the Milvus-backed clear_database answers success only when the     *)
(* collection was dropped and an empty collection exists again; when       *)
(* recreating it fails after the drop the caller receives an error.        *)
C21_ClearSuccessMeansRecreated ==
    (response.endpoint = "/clear_database" /\ response.status = 200
        /\ app \in MilvusApps) =>
       (milvus.exists /\ milvus.rows = <<>>)

(* C22: an add_face request that completes appends its record to the store *)
(* that is current when it appends; when a clear_database emptied the      *)
(* store after the request began, the store then holds exactly that one    *)
(* record.                                                                 *)
C22_AddAfterClearKept ==
    [][\A t \in Tasks :
          (pc[t] = "add_read" /\ pc'[t] = "idle" /\ AddSucceeded(response')) =>
             LET n == Len(face_db.faces)
             IN  /\ Len(face_db'.faces) = n + 1
                 /\ SubSeq(face_db'.faces, 1, n) = face_db.faces
                 /\ face_db'.faces[n + 1].face_id = local[t].face_id
                 /\ face_db'.faces[n + 1].image_path = <<"uploaded", local[t].file>>
                 /\ face_db'.embeddings = Append(face_db.embeddings, response'.embedding)
                 /\ response'.total_faces = n + 1
                 /\ face_db = FaceDatabase =>
                       (Len(face_db'.faces) = 1 /\ Len(face_db'.embeddings) = 1)]_vars

(* an add that began on a store of one record, which a reset then emptied, *)
(* has completed: the store holds its record and nothing else              *)
C22_Witness ==
    /\ AddSucceeded(response)
    /\ response.face_id = FormatId("uploaded", 2)
    /\ response.total_faces = 1
    /\ Len(face_db.faces) = 1
    /\ face_db.faces[1].face_id = response.face_id
    /\ face_db.embeddings = <<response.embedding>>

(* C23: after any sequence of successful adds, a search on the non-empty   *)
(* store with a query of dimension D and a valid top_k does not fail and   *)
(* returns a non-empty result list.                                        *)
C23_AddKeepsSearchWorking ==
    Len(face_db.faces) > 0 =>
        \A q \in {v \in CallVectors : v.len = D} :
            \A order \in SearchOrders(face_db, q), k \in CallTopKs :
                LET r == search_similar(face_db, q, k, order)
                IN  r.ok /\ Len(r.results) >= 1

(* C24: in every search endpoint, when the extraction of the embedding     *)
(* fails the request is answered with status 400, not with status 500.     *)
C24_ExtractionFailureIs400 ==
    [][\A t \in Tasks :
          (pc[t] \in {"search_read", "milvus_search_read"} /\ pc'[t] = "idle"
              /\ ~extract_face_embedding(local[t].file).ok) =>
             (response'.endpoint = "/search" /\ response'.status = 400)]_vars

(* C25: every temporary file a search or add_face request created is       *)
(* deleted by the time the request ends, on every path: each temporary     *)
(* file that exists belongs to a request that is still running.            *)
C25_TempFilesDeleted ==
    \A f \in tmp_files :
        \E t \in Tasks : pc[t] # "idle" /\ local[t].tmp_file_path = f

(* the image files of a listing that the startup load considers: the first *)
(* 100 of them                                                             *)
Considered(listing) ==
    LET image_files == SelectSeq(listing, IsImageFile)
    IN  SubSeq(image_files, 1, IF Len(image_files) < 100 THEN Len(image_files) ELSE 100)

(* the positions of the considered files whose extraction succeeds *)
Loadable(listing) ==
    {i \in 1..Len(Considered(listing)) :
        extract_face_embedding(Considered(listing)[i]).ok}

(* C26: the startup load adds at most 100 records; it considers the first  *)
(* 100 image files, a file whose extraction fails adds nothing and does    *)
(* not stop the files after it, and the records at the end are, in order,  *)
(* those of the considered files whose extraction succeeded.               *)
C26_StartupLoad ==
    response.endpoint = "startup_event" =>
        LET n == Len(face_db.faces)
            loadable == IF response.dir_exists THEN Loadable(response.listing) ELSE {}
        IN  /\ n <= 100
            /\ n = Cardinality(loadable)
            /\ Len(face_db.embeddings) = n
            /\ {face_db.faces[k].face_id : k \in 1..n} =
                  {FormatId("synthetic", i) : i \in loadable}
            /\ \A k \in 1..(n - 1) :
                  face_db.faces[k].face_id[2] < face_db.faces[k + 1].face_id[2]

(* a directory of more than 100 image files, one of the first 100 failing: *)
(* 99 records were loaded, the last of them from the 100th file            *)
C26_Witness ==
    /\ response.endpoint = "startup_event"
    /\ response.dir_exists
    /\ Len(SelectSeq(response.listing, IsImageFile)) > 100
    /\ Len(face_db.faces) = 99
    /\ face_db.faces[99].face_id = FormatId("synthetic", 100)

(* C27: once the service instance exists, get_face_search_service returns  *)
(* it without connecting again and nothing replaces it or gives it a       *)
(* collection; while it has no collection, find_similar_faces for an image *)
(* with a detected face raises RuntimeError.                               *)
C27_SingletonNoRetry ==
    [][service.created =>
          /\ service' = service
          /\ response'.endpoint = "get_face_search_service" =>
                 /\ response'.instance = service
                 /\ ~response'.created
                 /\ milvus' = milvus
          /\ (response'.endpoint = "find_similar_faces"
                  /\ service.collection = None
                  /\ get_face_embedding(response'.image_path).ok) =>
                 response'.raised = "RuntimeError"]_vars

(* the connection failed when the instance was created; by now the server  *)
(* has the collection, and a query with a detected face still raises       *)
C27_Witness ==
    /\ service.created
    /\ service.collection = None
    /\ milvus.exists
    /\ response.endpoint = "find_similar_faces"
    /\ get_face_embedding(response.image_path).ok
    /\ response.raised = "RuntimeError"

(* C28: a call of find_similar_faces on a service without a collection     *)
(* raises RuntimeError, whatever the query image.                          *)
C28_UnavailableAlwaysReported ==
    (response.endpoint = "find_similar_faces" /\ service.collection = None) =>
        response.raised = "RuntimeError"

(* C29: after any number of runs of process_face_dataset the collection    *)
(* holds each face_id at most once.                                        *)
C29_NoDuplicateFaceIds ==
    app = "generate_embeddings" =>
        \A i, j \in 1..Len(milvus.rows) :
            milvus.rows[i].face_id = milvus.rows[j].face_id => i = j

(* C30: when process_face_dataset returns its counters, the pending batch  *)
(* is empty and the collection has grown by one row for every face counted *)
(* as successfully processed.                                              *)
C30_BatchesLoseNothing ==
    [][(response'.endpoint = "process_face_dataset" /\ response'.outcome = "counts") =>
          /\ response'.batch_data = <<>>
          /\ Len(milvus'.rows) = Len(milvus.rows) + response'.successful]_vars

====
